---------------------------- MODULE Spec2Model ----------------------------
(***************************************************************************)
(* Model of the customsloglogger package (darthyoh/custom-slog-logger):    *)
(* the CustomHandler (Enabled / WithAttrs / WithGroup / Handle), the       *)
(* CustomLogger facade that sets the per-call routing flags under the      *)
(* handler mutex, and the JSON dispatch goroutine raced against a          *)
(* one-second timer.                                                       *)
(*                                                                         *)
(* The repository holds two generations of the package:                    *)
(*   "flagargs"  src/logger.go         Info(msg, logText, logJson, args...)*)
(*   "variants"  src/unnamed/part_001  Info / InfoTextOnly / InfoJsonOnly  *)
(* The variable `version` selects the generation a behaviour runs.         *)
(***************************************************************************)
EXTENDS Integers, Sequences, FiniteSets, TLC

VARIABLES
    version,    \* which generation of the package is linked in
    handlers,   \* sequence of CustomHandler objects (index = pointer identity)
    mutex,      \* per handler: 0 when unlocked, else the call holding *sync.Mutex
    loggers,    \* sequence of logger objects held by the application
    calls,      \* sequence of logging calls (index = call identity)
    sink,       \* the shared TextWriter: sequence of written chunks
    posts       \* HTTP POST requests issued so far: <<call, payload>>

vars == <<version, handlers, mutex, loggers, calls, sink, posts>>

-----------------------------------------------------------------------------
(* Bounds of the model *)

MaxOps == 2          \* operations (derivations and calls) of the routing workload
AttrOps == 4         \* operations of the attribute workload
AttrCalls == 1       \* calls among the operations of the attribute workload
ConcOps == 2         \* operations of the concurrent workload
SiblingOps == 3      \* operations of the sibling workload
LiveOps == 2         \* operations of the workload with every outcome of the POST
CtxOps == 3          \* operations of the context workload
SharedOps == 3       \* operations of the shared sink workload
CollideOps == 3      \* operations of the workload with colliding keys
RederiveOps == 3     \* operations of the workload deriving from a logger in use

-----------------------------------------------------------------------------
(* slog levels and the colors of the text output *)

LevelDebug == -4
LevelInfo == 0
LevelWarn == 4
LevelError == 8

COLOR_RESET == "\\033[0m"
COLOR_DARKGRAY == "\\033[90m"
COLOR_RED == "\\033[31m"
COLOR_BLUE == "\\033[34m"
COLOR_YELLOW == "\\033[33m"
COLOR_WHITE == "\\033[97m"

colorize(colorCode, v, colorized) ==
    IF ~colorized THEN v ELSE colorCode \o v \o COLOR_RESET

LevelColor(level) ==
    CASE level = LevelDebug -> COLOR_DARKGRAY
      [] level = LevelInfo -> COLOR_BLUE
      [] level = LevelWarn -> COLOR_YELLOW
      [] level = LevelError -> COLOR_RED
      [] OTHER -> COLOR_WHITE

(* fmt "%+d" *)
SignedString(n) == IF n >= 0 THEN "+" \o ToString(n) ELSE "-" \o ToString(0 - n)

(* slog.Level.String(): the name of the nearest lower named level, with offset *)
LevelOffsetString(base, val) == IF val = 0 THEN base ELSE base \o SignedString(val)

LevelString(l) ==
    CASE l < LevelInfo -> LevelOffsetString("DEBUG", l - LevelDebug)
      [] l >= LevelInfo /\ l < LevelWarn -> LevelOffsetString("INFO", l - LevelInfo)
      [] l >= LevelWarn /\ l < LevelError -> LevelOffsetString("WARN", l - LevelWarn)
      [] OTHER -> LevelOffsetString("ERROR", l - LevelError)

-----------------------------------------------------------------------------
(* Attribute values: slog.Value holding a string or an integer *)

StringValue(s) == [kind |-> "string", s |-> s, n |-> 0]
IntValue(n) == [kind |-> "int", s |-> "", n |-> n]
Attr(k, v) == [Key |-> k, Value |-> v]

(* slog.Value.String(), also what fmt's %s verb prints for a slog.Value *)
ValueString(v) == IF v.kind = "string" THEN v.s ELSE ToString(v.n)

(* fmt.Sprintf("%s", v) on a context value: a non-string operand is reported
   as a bad verb *)
SprintfS(v) == IF v.kind = "string" THEN v.s ELSE "%!s(int=" \o ToString(v.n) \o ")"

(* Go maps as sets of <<key, value>> pairs with unique keys *)
MapPut(m, k, v) == {p \in m : p[1] # k} \cup {<<k, v>>}
MapHas(m, k) == \E p \in m : p[1] = k
MapGet(m, k) == (CHOOSE p \in m : p[1] = k)[2]
MapKeys(m) == {p[1] : p \in m}

(* context.Context: a map from <<key type, key>> to value; Value() of an
   absent key is nil *)
Nil == [kind |-> "nil", s |-> "", n |-> 0]
CtxValue(ctx, keyType, key) ==
    IF MapHas(ctx, <<keyType, key>>) THEN MapGet(ctx, <<keyType, key>>) ELSE Nil

-----------------------------------------------------------------------------
(* Construction and derivation of handlers *)

(* faulty defaults that leave the text uncoloured *)
DefaultOptionsMono ==
    [AddSource |-> TRUE, ColorizeLogs |-> FALSE, JsonLogURL |-> "",
     MinimumLevel |-> LevelInfo]

DefaultOptions ==
    [AddSource |-> TRUE, ColorizeLogs |-> TRUE, JsonLogURL |-> "",
     MinimumLevel |-> LevelInfo]

(* NewCustomLogger: options is <<>> for nil, <<o>> for a pointer to o *)
NewCustomLogger(textWriter, options) ==
    [TextWriter |-> textWriter,
     CtxAttrsKeys |-> << >>,
     AdditionnalAttrs |-> << >>,
     GroupName |-> "",
     Options |-> IF options # << >> THEN options[1] ELSE DefaultOptions,
     logText |-> TRUE,
     logJson |-> TRUE]

(* a faulty Enabled that drops the events logged at exactly the minimum level *)
EnabledAbove(m, level) == level > m.Options.MinimumLevel

Enabled(m, level) == level >= m.Options.MinimumLevel

(* a faulty WithAttrs that appends to the attributes of its receiver *)
WithAttrsAppending(m, attrs) ==
    [NewCustomLogger(m.TextWriter, <<m.Options>>) EXCEPT
        !.GroupName = m.GroupName,
        !.AdditionnalAttrs = m.AdditionnalAttrs \o attrs]

(* a faulty WithAttrs that hands the context keys of its receiver on *)
WithAttrsKeepingKeys(m, attrs) ==
    [NewCustomLogger(m.TextWriter, <<m.Options>>) EXCEPT
        !.GroupName = m.GroupName,
        !.AdditionnalAttrs = attrs,
        !.CtxAttrsKeys = m.CtxAttrsKeys]

WithAttrs(m, attrs) ==
    [NewCustomLogger(m.TextWriter, <<m.Options>>) EXCEPT
        !.GroupName = m.GroupName,
        !.AdditionnalAttrs = attrs]

(* a faulty WithGroup that nests the new group inside the group of its receiver *)
WithGroupNesting(m, name) ==
    [NewCustomLogger(m.TextWriter, <<m.Options>>) EXCEPT
        !.GroupName = IF m.GroupName = "" THEN name ELSE m.GroupName \o "." \o name,
        !.AdditionnalAttrs = m.AdditionnalAttrs]

(* a faulty WithGroup that builds the new handler with the default options *)
WithGroupDefaultOptions(m, name) ==
    [NewCustomLogger(m.TextWriter, << >>) EXCEPT
        !.GroupName = name,
        !.AdditionnalAttrs = m.AdditionnalAttrs]

WithGroup(m, name) ==
    [NewCustomLogger(m.TextWriter, <<m.Options>>) EXCEPT
        !.GroupName = name,
        !.AdditionnalAttrs = m.AdditionnalAttrs]

(* the loop of WithCtxAttrsKeys: append every key, converted to CtxKeyString,
   to the CtxAttrsKeys of the handler it is given *)
AppendCtxKeys(m, keys) == [m EXCEPT !.CtxAttrsKeys = m.CtxAttrsKeys \o keys]

-----------------------------------------------------------------------------
(* Handle: merging the attributes *)

GroupPrefix(m) == IF m.GroupName # "" THEN m.GroupName \o "." ELSE ""

(* fmt.Sprintf("\t- %s%s : %s", groupPrefix, key, value) *)
AttrLine(groupPrefix, key, value) == "\t- " \o groupPrefix \o key \o " : " \o value

(* the attributes taken from the context: for every declared key the typed
   lookup, then the plain string lookup, the key being skipped when both are nil *)
RECURSIVE CtxAttrs(_, _)
CtxAttrs(keys, ctx) ==
    IF keys = << >> THEN << >>
    ELSE LET attr == Head(keys)
             typed == CtxValue(ctx, "CtxKeyString", attr)
             v == IF typed = Nil THEN CtxValue(ctx, "string", attr) ELSE typed
         IN (IF v = Nil THEN << >> ELSE <<Attr(attr, StringValue(SprintfS(v)))>>)
                \o CtxAttrs(Tail(keys), ctx)

(* a faulty merge that puts the attributes of the call before the bound ones *)
JsonAttrsCallFirst(m, ctx, recordAttrs) ==
    recordAttrs \o m.AdditionnalAttrs \o CtxAttrs(m.CtxAttrsKeys, ctx)

(* jsonAttrs after the three loops of Handle *)
JsonAttrs(m, ctx, recordAttrs) ==
    m.AdditionnalAttrs \o recordAttrs \o CtxAttrs(m.CtxAttrsKeys, ctx)

LinesOf(groupPrefix, attrs) ==
    [i \in 1..Len(attrs) |->
        AttrLine(groupPrefix, attrs[i].Key, ValueString(attrs[i].Value))]

(* textAttrs after the three loops of Handle *)
TextAttrs(m, ctx, recordAttrs) ==
    LinesOf(GroupPrefix(m), m.AdditionnalAttrs)
        \o LinesOf(GroupPrefix(m), recordAttrs)
        \o LinesOf(GroupPrefix(m), CtxAttrs(m.CtxAttrsKeys, ctx))

-----------------------------------------------------------------------------
(* Handle: the source position *)

(* runtime.Caller(skip) in Handle: frame 0 is Handle itself, the last element
   of the stack; <<>> when the stack is too shallow (ok = false) *)
Caller(stack, skip) ==
    IF skip < Len(stack) THEN <<stack[Len(stack) - skip]>> ELSE << >>

(* filepath.Base of a path given as its segments *)
Base(path) == path[Len(path)]

CallerSkipFlagArgs == 3
CallerSkipVariants == 2
CallerSkip(ver) == IF ver = "flagargs" THEN CallerSkipFlagArgs ELSE CallerSkipVariants

Source(m, stack, ver) ==
    LET f == Caller(stack, CallerSkip(ver))
    IN IF f # << >> /\ m.Options.AddSource
       THEN "@" \o Base(f[1].file) \o ":" \o ToString(f[1].line)
       ELSE ""

-----------------------------------------------------------------------------
(* Handle: the text block and the JSON payload *)

(* r.Time.Format(time.DateTime) and Format("2006-01-02 15:04:05") *)
FormatTime(t) == t.date \o " " \o t.clock

(* the operands of fmt.Fprintln; attrs stands for textAttrsValues, the lines
   of textAttrs each preceded by a newline *)
TextBlock(m, level, msg, time, textAttrs, source) ==
    LET color == LevelColor(level)
        on == m.Options.ColorizeLogs
    IN [banner |-> colorize(color,
                     "===============" \o LevelString(level) \o "================\n", on),
        message |-> colorize(color, msg, on),
        stamp |-> colorize(COLOR_DARKGRAY,
                     "\n " \o FormatTime(time) \o " " \o source, on),
        attrs |-> textAttrs,
        footer |-> colorize(color, "\n====================================", on)]

JString(s) == [kind |-> "string", s |-> s, m |-> {}]
JObject(m) == [kind |-> "object", s |-> "", m |-> m]

(* groupMap[attr.Key] = attr.Value.String() for every attribute in order *)
RECURSIVE GroupMap(_, _)
GroupMap(groupMap, attrs) ==
    IF attrs = << >> THEN groupMap
    ELSE GroupMap(MapPut(groupMap, Head(attrs).Key, ValueString(Head(attrs).Value)),
                  Tail(attrs))

(* jsonData[attr.Key] = attr.Value.String() for every attribute in order *)
RECURSIVE FlatMap(_, _)
FlatMap(jsonData, attrs) ==
    IF attrs = << >> THEN jsonData
    ELSE FlatMap(MapPut(jsonData, Head(attrs).Key,
                        JString(ValueString(Head(attrs).Value))),
                 Tail(attrs))

(* a faulty payload in which the fields of the event are written last *)
JsonDataFieldsLast(m, level, msg, time, jsonAttrs, source) ==
    LET attrs == IF m.GroupName # ""
                 THEN IF jsonAttrs = << >> THEN {}
                      ELSE {<<m.GroupName, JObject(GroupMap({}, jsonAttrs))>>}
                 ELSE FlatMap({}, jsonAttrs)
        fields == MapPut(MapPut(MapPut(attrs, "time", JString(FormatTime(time))),
                                "level", JString(LevelString(level))),
                         "msg", JString(msg))
    IN IF source # "" THEN MapPut(fields, "source", JString(source)) ELSE fields

JsonData(m, level, msg, time, jsonAttrs, source) ==
    LET base == {<<"time", JString(FormatTime(time))>>,
                 <<"level", JString(LevelString(level))>>,
                 <<"msg", JString(msg)>>}
        withSource == IF source # "" THEN MapPut(base, "source", JString(source))
                      ELSE base
    IN IF m.GroupName # ""
       THEN IF jsonAttrs = << >> THEN withSource
            ELSE MapPut(withSource, m.GroupName, JObject(GroupMap({}, jsonAttrs)))
       ELSE FlatMap(withSource, jsonAttrs)

(* a faulty condition of the JSON branch that forgets the URL *)
SendsJsonAnyURL(m) == m.logJson

(* a faulty condition of the JSON branch that forgets the routing flag *)
SendsJsonAnyFlag(m) == m.Options.JsonLogURL # ""

(* the condition of the JSON branch of Handle *)
SendsJson(m) == m.Options.JsonLogURL # "" /\ m.logJson

(* http.NewRequest fails when the URL does not parse *)
MalformedURLs == {":malformed"}
NewRequestFails(url) == url \in MalformedURLs

-----------------------------------------------------------------------------
(* The logging methods and the call stack each of them builds *)

Levels == {LevelDebug, LevelInfo, LevelWarn, LevelError}

Frame(pkg, fn, file, line) == [pkg |-> pkg, fn |-> fn, file |-> file, line |-> line]

AppFile == <<"app", "main.go">>
PkgFile == <<"custom-slog-logger", "logger.go">>
SlogFile == <<"go", "src", "log", "slog", "logger.go">>

(* the application function that calls the logger, and its own caller *)
OuterFrame == Frame("app", "main.ServeHTTP", AppFile, 30)
AppFrame == Frame("app", "main.handler", AppFile, 44)

(* log/slog: the public method and the private log / logAttrs that calls
   Handler().Handle; the line numbers stand for positions in the library *)
SlogChain(fn) ==
    <<Frame("slog", "Logger." \o fn, SlogFile, 200),
      Frame("slog", IF fn \in {"LogAttrs"} THEN "Logger.logAttrs" ELSE "Logger.log",
            SlogFile, 250)>>

HandleFrame(ver) ==
    Frame("customsloglogger", "CustomHandler.Handle", PkgFile,
          IF ver = "flagargs" THEN 211 ELSE 218)

Entry(name, wrapped, level, logText, logJson, takesCtx, chain) ==
    [name |-> name, wrapped |-> wrapped, level |-> level, logText |-> logText,
     logJson |-> logJson, takesCtx |-> takesCtx, chain |-> chain]

(* src/logger.go: every CustomLogger method locks, sets the flags it is given
   and calls the slog method of the same name *)
FlagArgsEntries ==
    {Entry(t[1], TRUE, t[2], lt, lj, FALSE,
           <<Frame("customsloglogger", "CustomLogger." \o t[1], PkgFile, t[3])>>
               \o SlogChain(t[1])) :
        t \in {<<"Warn", LevelWarn, 359>>, <<"Info", LevelInfo, 370>>,
               <<"Error", LevelError, 381>>, <<"Debug", LevelDebug, 392>>},
        lt \in BOOLEAN, lj \in BOOLEAN}
    \cup
    {Entry(t[1], TRUE, level, lt, lj, TRUE,
           <<Frame("customsloglogger", "CustomLogger." \o t[1], PkgFile, t[2])>>
               \o SlogChain(t[1])) :
        t \in {<<"Log", 403>>, <<"LogAttrs", 414>>},
        level \in Levels, lt \in BOOLEAN, lj \in BOOLEAN}

(* src/unnamed/part_001: every CustomLogger method calls log (or logAttrs) with
   fixed flags; log locks, sets the flags and calls slog's Log *)
VariantFlags ==
    {<<"", TRUE, TRUE, 0>>, <<"TextOnly", TRUE, FALSE, 5>>,
     <<"JsonOnly", FALSE, TRUE, 10>>}

VariantsEntries ==
    {Entry(t[1] \o f[1], TRUE, t[2], f[2], f[3], FALSE,
           <<Frame("customsloglogger", "CustomLogger." \o t[1] \o f[1], PkgFile, t[3] + f[4]),
             Frame("customsloglogger", "CustomLogger.log", PkgFile, 366)>>
               \o SlogChain("Log")) :
        t \in {<<"Warn", LevelWarn, 386>>, <<"Info", LevelInfo, 411>>,
               <<"Error", LevelError, 441>>, <<"Debug", LevelDebug, 471>>},
        f \in VariantFlags}
    \cup
    {Entry(t[1] \o f[1], TRUE, t[2], f[2], f[3], TRUE,
           <<Frame("customsloglogger", "CustomLogger." \o t[1] \o f[1], PkgFile, t[3] + f[4]),
             Frame("customsloglogger", "CustomLogger.log", PkgFile, 366)>>
               \o SlogChain("Log")) :
        t \in {<<"InfoContext", LevelInfo, 426>>, <<"ErrorContext", LevelError, 456>>,
               <<"DebugContext", LevelDebug, 486>>},
        f \in VariantFlags}
    \cup
    {Entry("WarnContext" \o f[1], TRUE, LevelWarn, f[2], f[3], TRUE,
           <<Frame("customsloglogger", "CustomLogger.WarnContext" \o f[1], PkgFile,
                   396 + f[4]),
             Frame("customsloglogger", "CustomLogger.log", PkgFile, 366)>>
               \o SlogChain("Log")) :
        f \in {g \in VariantFlags : g[1] # ""}}
    \cup
    {Entry("Log" \o f[1], TRUE, level, f[2], f[3], TRUE,
           <<Frame("customsloglogger", "CustomLogger.Log" \o f[1], PkgFile, 371 + f[4]),
             Frame("customsloglogger", "CustomLogger.log", PkgFile, 366)>>
               \o SlogChain("Log")) :
        level \in Levels, f \in VariantFlags}
    \cup
    {Entry("LogAttrs" \o f[1], TRUE, level, f[2], f[3], TRUE,
           <<Frame("customsloglogger", "CustomLogger.LogAttrs" \o f[1], PkgFile,
                   511 + f[4]),
             Frame("customsloglogger", "CustomLogger.logAttrs", PkgFile, 506)>>
               \o SlogChain("LogAttrs")) :
        level \in Levels, f \in VariantFlags}

(* the methods of the embedded *slog.Logger: no lock, no flag is set *)
SlogEntries ==
    {Entry(t[1], FALSE, t[2], FALSE, FALSE, t[3], SlogChain(t[1])) :
        t \in {<<"Warn", LevelWarn, FALSE>>, <<"Info", LevelInfo, FALSE>>,
               <<"Error", LevelError, FALSE>>, <<"Debug", LevelDebug, FALSE>>,
               <<"WarnContext", LevelWarn, TRUE>>, <<"InfoContext", LevelInfo, TRUE>>,
               <<"ErrorContext", LevelError, TRUE>>,
               <<"DebugContext", LevelDebug, TRUE>>}}

(* the methods a logger object offers: a CustomLogger offers its own methods
   and those of slog.Logger that it does not redefine; a *slog.Logger (what
   With and WithGroup return in src/logger.go) offers slog's methods only *)
Entries(ver, custom) ==
    IF ~custom THEN SlogEntries
    ELSE LET own == IF ver = "flagargs" THEN FlagArgsEntries ELSE VariantsEntries
         IN own \cup {e \in SlogEntries : \A o \in own : o.name # e.name}

-----------------------------------------------------------------------------
(* State of a logging call *)

Timeout == 1

EventTime == [date |-> "2024-05-01", clock |-> "10:20:30"]

(* a faulty method of CustomLogger that calls slog without taking the lock *)
EntryPcUnlocked(e) == "handle"

(* where a call starts: a method of CustomLogger at its h.Lock(), a method of
   the embedded slog.Logger directly in slog *)
EntryPc(e) == IF e.wrapped THEN "lock" ELSE "handle"

NewCall(l, e, attrs, ctx) ==
    [logger |-> l,
     h |-> loggers[l].handler,
     entry |-> e.name,
     wrapped |-> e.wrapped,
     level |-> e.level,
     logText |-> e.logText,
     logJson |-> e.logJson,
     msg |-> "msg",
     time |-> EventTime,
     attrs |-> attrs,
     ctx |-> IF e.takesCtx THEN ctx ELSE {},
     stack |-> <<OuterFrame, AppFrame>> \o e.chain \o <<HandleFrame(version)>>,
     pc |-> EntryPc(e),
     handled |-> FALSE,       \* Handle was entered
     readText |-> "unread",   \* the value of m.logText Handle read
     readJson |-> "unread",   \* the value of m.logJson Handle read
     textAttrs |-> << >>,
     jsonAttrs |-> << >>,
     source |-> "",
     payload |-> {},
     err |-> "",              \* the error Handle returned
     go |-> "none",           \* the dispatch goroutine
     printed |-> 0,           \* lines printed on standard output
     elapsed |-> 0,           \* seconds since the call was invoked
     waited |-> 0,            \* seconds since the select was entered
     timedOut |-> FALSE,
     ticket |-> 0,            \* rank of the call among those that locked its handler
     during |-> {k \in 1..Len(calls) : calls[k].pc # "done"}]
                              \* the calls in progress when this one was made

Active(i) == calls[i].pc # "done"

(* a faulty lock that never makes a caller wait *)
MutexAlwaysFree(h) == TRUE

(* a faulty lock that a second caller gets while the holder waits for its POST *)
MutexFreeWhileWaiting(h) ==
    IF mutex[h] = 0 THEN TRUE ELSE calls[mutex[h]].pc = "select"

(* sync.Mutex.Lock proceeds only when the mutex is unlocked *)
MutexFree(h) == mutex[h] = 0

BoolString(b) == IF b THEN "true" ELSE "false"

-----------------------------------------------------------------------------
(* Derivation of loggers *)

(* slog.Logger.With -> CustomHandler.WithAttrs; in part_001 the result is
   wrapped in a CustomLogger *)
LoggerWith(l, attrs) ==
    /\ attrs # << >>
    /\ handlers' = Append(handlers, WithAttrs(handlers[loggers[l].handler], attrs))
    /\ mutex' = Append(mutex, 0)
    /\ loggers' = Append(loggers,
            [handler |-> Len(handlers) + 1, custom |-> version = "variants",
             via |-> "With", parent |-> l, attrs |-> attrs, group |-> "",
             keys |-> << >>, nilOptions |-> FALSE])
    /\ UNCHANGED <<version, calls, sink, posts>>

(* slog.Logger.WithGroup -> CustomHandler.WithGroup *)
LoggerWithGroup(l, name) ==
    /\ name # ""
    /\ handlers' = Append(handlers, WithGroup(handlers[loggers[l].handler], name))
    /\ mutex' = Append(mutex, 0)
    /\ loggers' = Append(loggers,
            [handler |-> Len(handlers) + 1, custom |-> version = "variants",
             via |-> "WithGroup", parent |-> l, attrs |-> << >>, group |-> name,
             keys |-> << >>, nilOptions |-> FALSE])
    /\ UNCHANGED <<version, calls, sink, posts>>

(* CustomLogger.WithCtxAttrsKeys: the keys are appended to the handler of the
   logger it is called on, and the new logger is bound to that same handler *)
WithCtxAttrsKeys(l, keys) ==
    /\ loggers[l].custom
    /\ handlers' = [handlers EXCEPT
            ![loggers[l].handler] = AppendCtxKeys(@, keys)]
    /\ loggers' = Append(loggers,
            [handler |-> loggers[l].handler, custom |-> TRUE,
             via |-> "WithCtxAttrsKeys", parent |-> l, attrs |-> << >>,
             group |-> "", keys |-> keys, nilOptions |-> FALSE])
    /\ UNCHANGED <<version, mutex, calls, sink, posts>>

-----------------------------------------------------------------------------
(* A logging call, step by step *)

(* the application calls method e of logger l *)
Invoke(l, e, attrs, ctx) ==
    /\ e \in Entries(version, loggers[l].custom)
    /\ calls' = Append(calls, NewCall(l, e, attrs, ctx))
    /\ UNCHANGED <<version, handlers, mutex, loggers, sink, posts>>

(* h.Lock(); defer h.Unlock(); h.logJson = logJson; h.logText = logText *)
Lock(i) ==
    /\ calls[i].pc = "lock"
    /\ MutexFree(calls[i].h)
    /\ mutex' = [mutex EXCEPT ![calls[i].h] = i]
    /\ handlers' = [handlers EXCEPT ![calls[i].h] =
            [@ EXCEPT !.logJson = calls[i].logJson, !.logText = calls[i].logText]]
    /\ calls' = [calls EXCEPT
            ![i].pc = "handle",
            ![i].ticket = 1 + Cardinality({k \in 1..Len(calls) :
                                  calls[k].h = calls[i].h /\ calls[k].ticket > 0})]
    /\ UNCHANGED <<version, loggers, sink, posts>>

(* a faulty Handle that enters the JSON branch while the text block is still
   being written *)
TextStepSkipped(m) == "json"

(* where Handle goes once the attributes are rendered: the text block is
   written out first when m.logText is set, the JSON branch comes after it *)
TextStep(m) == IF m.logText THEN "write" ELSE "json"

(* slog.Logger.log: return when the level is not enabled, else Handle up to
   the start of the write of the text block *)
HandleBegin(i) ==
    LET c == calls[i]
        m == handlers[c.h]
        source == Source(m, c.stack, version)
        block == TextBlock(m, c.level, c.msg, c.time,
                           TextAttrs(m, c.ctx, c.attrs), source)
    IN /\ c.pc = "handle"
       /\ IF ~Enabled(m, c.level)
          THEN /\ calls' = [calls EXCEPT ![i].pc = "ret"]
               /\ sink' = sink
          ELSE /\ calls' = [calls EXCEPT
                      ![i].handled = TRUE,
                      ![i].textAttrs = block.attrs,
                      ![i].jsonAttrs = JsonAttrs(m, c.ctx, c.attrs),
                      ![i].source = source,
                      ![i].readText = BoolString(m.logText),
                      ![i].pc = TextStep(m)]
               /\ sink' = IF m.logText
                          THEN Append(sink, [call |-> i, part |-> "begin",
                                  text |-> <<block.banner, block.message, block.stamp>>])
                          ELSE sink
       /\ UNCHANGED <<version, handlers, mutex, loggers, posts>>

(* the rest of the write of the text block *)
WriteEnd(i) ==
    LET c == calls[i]
        m == handlers[c.h]
        block == TextBlock(m, c.level, c.msg, c.time, c.textAttrs, c.source)
    IN /\ c.pc = "write"
       /\ sink' = Append(sink, [call |-> i, part |-> "end",
                                text |-> block.attrs \o <<block.footer>>])
       /\ calls' = [calls EXCEPT ![i].pc = "json"]
       /\ UNCHANGED <<version, handlers, mutex, loggers, posts>>

(* the JSON branch of Handle up to the select *)
Dispatch(i) ==
    LET c == calls[i]
        m == handlers[c.h]
        jsonData == JsonData(m, c.level, c.msg, c.time, c.jsonAttrs, c.source)
    IN /\ c.pc = "json"
       /\ calls' = [calls EXCEPT ![i] =
            IF ~SendsJson(m)
            THEN [c EXCEPT !.readJson =
                     IF m.Options.JsonLogURL # "" THEN BoolString(m.logJson)
                     ELSE "unread",
                     !.pc = "ret"]
            ELSE IF NewRequestFails(m.Options.JsonLogURL)
            THEN [c EXCEPT !.readJson = "true", !.payload = jsonData,
                     !.err = "unable to create http request to send json log",
                     !.pc = "ret"]
            ELSE [c EXCEPT !.readJson = "true", !.payload = jsonData,
                     !.go = "spawned", !.pc = "select"]]
       /\ UNCHANGED <<version, handlers, mutex, loggers, sink, posts>>

(* the goroutine: client.Do(req) sends the request *)
GoDo(i) ==
    /\ calls[i].go = "spawned"
    /\ posts' = Append(posts,
            [call |-> i, method |-> "POST",
             url |-> handlers[calls[i].h].Options.JsonLogURL,
             contentType |-> "application/json", body |-> calls[i].payload])
    /\ calls' = [calls EXCEPT ![i].go = "inflight"]
    /\ UNCHANGED <<version, handlers, mutex, loggers, sink>>

(* client.Do returns: a response, or a transport error that is printed; then
   the deferred function starts its send on ch *)
GoResponse(i, ok) ==
    /\ calls[i].go = "inflight"
    /\ calls' = [calls EXCEPT ![i].go = "send",
                              ![i].printed = IF ok THEN @ ELSE @ + 1]
    /\ UNCHANGED <<version, handlers, mutex, loggers, sink, posts>>

(* case <-ch: the unbuffered send of the goroutine meets the receive *)
SelectReceive(i) ==
    /\ calls[i].pc = "select"
    /\ calls[i].go = "send"
    /\ calls' = [calls EXCEPT ![i].go = "done", ![i].pc = "ret"]
    /\ UNCHANGED <<version, handlers, mutex, loggers, sink, posts>>

(* case <-time.After(1 * time.Second) *)
SelectTimeout(i) ==
    /\ calls[i].pc = "select"
    /\ calls[i].waited >= Timeout
    /\ calls' = [calls EXCEPT ![i].timedOut = TRUE, ![i].pc = "ret"]
    /\ UNCHANGED <<version, handlers, mutex, loggers, sink, posts>>

(* a faulty return that leaves the mutex locked *)
ReturnKeepingLock(i) ==
    /\ calls[i].pc = "ret"
    /\ calls' = [calls EXCEPT ![i].pc = "done"]
    /\ UNCHANGED <<version, handlers, mutex, loggers, sink, posts>>

(* Handle and slog return (the error is dropped by slog), the deferred
   h.Unlock() runs *)
Return(i) ==
    /\ calls[i].pc = "ret"
    /\ mutex' = IF calls[i].wrapped THEN [mutex EXCEPT ![calls[i].h] = 0] ELSE mutex
    /\ calls' = [calls EXCEPT ![i].pc = "done"]
    /\ UNCHANGED <<version, handlers, loggers, sink, posts>>

(* one second passes; it can only pass when every running call is blocked, on
   the mutex or in the select, and no goroutine has an immediate step *)
Blocked(i) ==
    \/ calls[i].pc = "done" /\ calls[i].go # "spawned"
    \/ calls[i].pc = "lock" /\ ~MutexFree(calls[i].h)
    \/ calls[i].pc = "select" /\ calls[i].waited < Timeout
            /\ calls[i].go = "inflight"

Tick ==
    /\ \E i \in 1..Len(calls) : Active(i)
    /\ \A i \in 1..Len(calls) : Blocked(i)
    /\ calls' = [i \in 1..Len(calls) |->
            IF ~Active(i) THEN calls[i]
            ELSE [calls[i] EXCEPT !.elapsed = @ + 1,
                     !.waited = IF calls[i].pc = "select" THEN @ + 1 ELSE @]]
    /\ UNCHANGED <<version, handlers, mutex, loggers, sink, posts>>

-----------------------------------------------------------------------------
(* Workloads: what the application does with the package *)

GoodURL == "http://localhost:8081/logs"
BadURL == ":malformed"

AttrA == Attr("a", IntValue(1))
AttrB == Attr("b", StringValue("2"))
AttrB0 == Attr("b", StringValue("0"))
AttrX == Attr("x", StringValue("1"))
AttrY == Attr("y", StringValue("2"))

AttrMsg == Attr("msg", StringValue("m2"))
AttrTime == Attr("time", StringValue("t2"))
AttrSource == Attr("source", StringValue("s2"))

CtxTyped == {<<<<"CtxKeyString", "u">>, StringValue("v")>>}
CtxLevel == {<<<<"CtxKeyString", "level">>, StringValue("l2")>>}
CtxPlain == {<<<<"string", "u">>, IntValue(7)>>}

Options(addSource, colorizeLogs, url, min) ==
    [AddSource |-> addSource, ColorizeLogs |-> colorizeLogs, JsonLogURL |-> url,
     MinimumLevel |-> min]

Quiet == \A i \in 1..Len(calls) : ~Active(i)

(* the operations the application has performed: derivations and calls *)
Ops == (Len(loggers) - 1) + Len(calls)

(* a derivation the workload allows now *)
MayDerive(W, l) ==
    /\ Ops < W.maxOps
    /\ W.chain => l = Len(loggers)
    /\ W.sequential => Quiet
    /\ W.deriveFirst => calls = << >>

(* a call the workload allows now *)
MayCall(W, e) ==
    /\ Ops < W.maxOps
    /\ Len(calls) < W.maxCalls
    /\ W.sequential => Quiet
    /\ e.name \in W.entries
    /\ e.wrapped => <<e.logText, e.logJson>> \in W.flags

InitOf(W) ==
    /\ version \in W.versions
    /\ \E o \in W.options :
            /\ handlers = <<NewCustomLogger("w", o)>>
            /\ loggers = <<[handler |-> 1, custom |-> TRUE, via |-> "NewCustomLogger",
                            parent |-> 0, attrs |-> << >>, group |-> "",
                            keys |-> << >>, nilOptions |-> o = << >>]>>
    /\ mutex = <<0>>
    /\ calls = << >>
    /\ sink = << >>
    /\ posts = << >>

NextOf(W) ==
    \/ \E l \in 1..Len(loggers), a \in W.withAttrs :
            MayDerive(W, l) /\ LoggerWith(l, a)
    \/ \E l \in 1..Len(loggers), g \in W.groups :
            MayDerive(W, l) /\ LoggerWithGroup(l, g)
    \/ \E l \in 1..Len(loggers), k \in W.keysets :
            MayDerive(W, l) /\ WithCtxAttrsKeys(l, k)
    \/ \E l \in 1..Len(loggers), in \in W.inputs :
            \E e \in Entries(version, loggers[l].custom) :
                MayCall(W, e) /\ Invoke(l, e, in[1], in[2])
    \/ \E i \in 1..Len(calls) : Lock(i)
    \/ \E i \in 1..Len(calls) : HandleBegin(i)
    \/ \E i \in 1..Len(calls) : WriteEnd(i)
    \/ \E i \in 1..Len(calls) : Dispatch(i)
    \/ \E i \in 1..Len(calls) : GoDo(i)
    \/ \E i \in 1..Len(calls), ok \in W.responses : GoResponse(i, ok)
    \/ \E i \in 1..Len(calls) : SelectReceive(i)
    \/ \E i \in 1..Len(calls) : SelectTimeout(i)
    \/ \E i \in 1..Len(calls) : Return(i)
    \/ Tick

AllFlags == BOOLEAN \X BOOLEAN

(* one caller at a time: minimum level, URL, source option and flags vary *)
Sequential ==
    [versions |-> {"flagargs", "variants"},
     options |-> {<< >>, <<Options(FALSE, FALSE, GoodURL, LevelInfo)>>}
        \cup {<<Options(TRUE, FALSE, u, min)>> :
                 u \in {"", GoodURL, BadURL}, min \in {LevelDebug, LevelInfo, LevelWarn}},
     entries |-> {"Info", "InfoTextOnly", "InfoJsonOnly", "WarnContext", "Debug"},
     flags |-> AllFlags,
     inputs |-> {<<<< >>, {}>>},
     withAttrs |-> {<<AttrX>>},
     groups |-> {"vals"},
     keysets |-> {<<"u">>},
     responses |-> BOOLEAN,
     maxOps |-> MaxOps,
     maxCalls |-> MaxOps,
     deriveFirst |-> FALSE,
     chain |-> FALSE,
     sequential |-> TRUE]

(* one caller at a time: bound attributes, group, context keys, call-site
   attributes and context values vary *)
Attributes ==
    [versions |-> {"flagargs", "variants"},
     options |-> {<<Options(TRUE, FALSE, GoodURL, LevelInfo)>>},
     entries |-> {"InfoContext"},
     flags |-> {<<TRUE, TRUE>>},
     inputs |-> {<<<< >>, {}>>, <<<<AttrB>>, CtxTyped>>},
     withAttrs |-> {<<AttrA>>, <<AttrB0, AttrA>>},
     groups |-> {"vals"},
     keysets |-> {<<"u">>},
     responses |-> {TRUE},
     maxOps |-> AttrOps,
     maxCalls |-> AttrCalls,
     deriveFirst |-> TRUE,
     chain |-> TRUE,
     sequential |-> TRUE]

Init == InitOf(Sequential)
Next == NextOf(Sequential)
Spec == Init /\ [][Next]_vars

(* several callers at once on loggers sharing the sink: flags and the
   behaviour of the remote endpoint vary *)
Concurrent ==
    [versions |-> {"flagargs", "variants"},
     options |-> {<<Options(FALSE, FALSE, GoodURL, LevelInfo)>>},
     entries |-> {"Info", "InfoTextOnly", "InfoJsonOnly", "WarnContext"},
     flags |-> {<<TRUE, FALSE>>, <<FALSE, TRUE>>},
     inputs |-> {<<<< >>, {}>>},
     withAttrs |-> {<<AttrX>>},
     groups |-> {"vals"},
     keysets |-> {<<"u">>},
     responses |-> {TRUE},
     maxOps |-> ConcOps,
     maxCalls |-> ConcOps,
     deriveFirst |-> FALSE,
     chain |-> FALSE,
     sequential |-> FALSE]

(* one caller at a time: several loggers are derived from any logger made so
   far, then events are logged through any of them *)
Siblings ==
    [versions |-> {"flagargs", "variants"},
     options |-> {<<Options(FALSE, FALSE, GoodURL, LevelInfo)>>},
     entries |-> {"Info"},
     flags |-> {<<TRUE, TRUE>>},
     inputs |-> {<<<<AttrB>>, {}>>},
     withAttrs |-> {<<AttrX>>, <<AttrY>>},
     groups |-> {"vals", "req"},
     keysets |-> {<<"u">>},
     responses |-> {TRUE},
     maxOps |-> SiblingOps,
     maxCalls |-> SiblingOps,
     deriveFirst |-> FALSE,
     chain |-> FALSE,
     sequential |-> TRUE]

(* several callers at once, every outcome of the POST: a response, a
   transport error, or no answer at all *)
Outcomes ==
    [versions |-> {"flagargs", "variants"},
     options |-> {<<Options(FALSE, FALSE, GoodURL, LevelInfo)>>},
     entries |-> {"Info"},
     flags |-> {<<TRUE, TRUE>>},
     inputs |-> {<<<< >>, {}>>},
     withAttrs |-> {<<AttrX>>},
     groups |-> {"vals"},
     keysets |-> {<<"u">>},
     responses |-> BOOLEAN,
     maxOps |-> LiveOps,
     maxCalls |-> LiveOps,
     deriveFirst |-> TRUE,
     chain |-> TRUE,
     sequential |-> FALSE]

(* the steps the Go scheduler and the clock take without waiting for anybody:
   every step of a running call and of its goroutine, and the passing of
   time; what the application and the remote endpoint do is not among them *)
Progress ==
    \/ \E i \in 1..Len(calls) :
          \/ Lock(i) \/ HandleBegin(i) \/ WriteEnd(i) \/ Dispatch(i)
          \/ GoDo(i) \/ SelectReceive(i) \/ SelectTimeout(i) \/ Return(i)
    \/ Tick

InitOutcomes == InitOf(Outcomes)
NextOutcomes == NextOf(Outcomes)
SpecOutcomes == InitOutcomes /\ [][NextOutcomes]_vars /\ WF_vars(Progress)

InitAttrs == InitOf(Attributes)
NextAttrs == NextOf(Attributes)
SpecAttrs == InitAttrs /\ [][NextAttrs]_vars

(* one event with a context: the declared key under its typed form, under
   its plain form, under both or under none, a declared key being absent *)
Contexts ==
    [versions |-> {"flagargs", "variants"},
     options |-> {<<Options(TRUE, FALSE, GoodURL, LevelInfo)>>},
     entries |-> {"InfoContext"},
     flags |-> {<<TRUE, TRUE>>},
     inputs |-> {<<<< >>, c>> : c \in {{}, CtxTyped, CtxPlain, CtxTyped \cup CtxPlain}},
     withAttrs |-> {<<AttrX>>},
     groups |-> {"vals"},
     keysets |-> {<<"u">>, <<"w", "u">>},
     responses |-> {TRUE},
     maxOps |-> CtxOps,
     maxCalls |-> 1,
     deriveFirst |-> TRUE,
     chain |-> TRUE,
     sequential |-> TRUE]

InitCtx == InitOf(Contexts)
NextCtx == NextOf(Contexts)
SpecCtx == InitCtx /\ [][NextCtx]_vars

(* several callers at once on a logger and on the loggers derived from it,
   which all write to the sink of the first *)
SharedSink ==
    [versions |-> {"flagargs", "variants"},
     options |-> {<<Options(FALSE, FALSE, GoodURL, LevelInfo)>>},
     entries |-> {"Info"},
     flags |-> {<<TRUE, TRUE>>},
     inputs |-> {<<<< >>, {}>>},
     withAttrs |-> {<<AttrX>>},
     groups |-> {"vals"},
     keysets |-> {<<"u">>},
     responses |-> {TRUE},
     maxOps |-> SharedOps,
     maxCalls |-> 2,
     deriveFirst |-> TRUE,
     chain |-> FALSE,
     sequential |-> FALSE]

InitShared == InitOf(SharedSink)
NextShared == NextOf(SharedSink)
SpecShared == InitShared /\ [][NextShared]_vars

(* one event whose attributes, context key or group are named like the
   fields of the event in the JSON payload *)
Collisions ==
    [versions |-> {"flagargs", "variants"},
     options |-> {<<Options(a, FALSE, GoodURL, LevelInfo)>> : a \in BOOLEAN},
     entries |-> {"InfoContext"},
     flags |-> {<<TRUE, TRUE>>},
     inputs |-> {<<<< >>, {}>>, <<<<AttrTime>>, CtxLevel>>, <<<<AttrX>>, {}>>},
     withAttrs |-> {<<AttrMsg>>, <<AttrSource>>},
     groups |-> {"time", "vals"},
     keysets |-> {<<"level">>},
     responses |-> {TRUE},
     maxOps |-> CollideOps,
     maxCalls |-> 1,
     deriveFirst |-> TRUE,
     chain |-> TRUE,
     sequential |-> TRUE]

InitCollide == InitOf(Collisions)
NextCollide == NextOf(Collisions)
SpecCollide == InitCollide /\ [][NextCollide]_vars

(* loggers are derived, one from the other, from a logger that is or has been
   in use: its flags may be off, its lock held, its context keys declared *)
Rederive ==
    [versions |-> {"flagargs", "variants"},
     options |-> {<<Options(FALSE, FALSE, GoodURL, LevelInfo)>>},
     entries |-> {"Info", "InfoJsonOnly", "InfoContext"},
     flags |-> {<<TRUE, TRUE>>, <<FALSE, TRUE>>},
     inputs |-> {<<<< >>, CtxTyped>>},
     withAttrs |-> {<<AttrX>>},
     groups |-> {"vals"},
     keysets |-> {<<"u">>},
     responses |-> {TRUE},
     maxOps |-> RederiveOps,
     maxCalls |-> 1,
     deriveFirst |-> FALSE,
     chain |-> TRUE,
     sequential |-> FALSE]

InitRederive == InitOf(Rederive)
NextRederive == NextOf(Rederive)
SpecRederive == InitRederive /\ [][NextRederive]_vars

InitSiblings == InitOf(Siblings)
NextSiblings == NextOf(Siblings)
SpecSiblings == InitSiblings /\ [][NextSiblings]_vars

InitConc == InitOf(Concurrent)
NextConc == NextOf(Concurrent)
SpecConc == InitConc /\ [][NextConc]_vars

-----------------------------------------------------------------------------
(* Properties *)

(* what a call has put in the sink and sent to the remote endpoint *)
ChunksOf(i, part) == {k \in 1..Len(sink) : sink[k].call = i /\ sink[k].part = part}
PostsOf(i) == {k \in 1..Len(posts) : posts[k].call = i}
Returned(i) == calls[i].pc \in {"ret", "done"}
URLOf(i) == handlers[calls[i].h].Options.JsonLogURL

(* C1: an event reaches Handle exactly when its level >= MinimumLevel, an
   event at exactly the minimum level being processed; an event below the minimum
   level writes nothing to the text sink, starts no dispatch and issues no
   POST, whatever the routing flags and the JsonLogURL *)
C1_DisabledEventsAreSilent ==
    \A i \in 1..Len(calls) :
         LET c == calls[i]
             min == handlers[c.h].Options.MinimumLevel
         IN /\ c.pc \notin {"lock", "handle"} => (c.handled <=> c.level >= min)
            /\ c.level < min =>
                  /\ ChunksOf(i, "begin") = {} /\ ChunksOf(i, "end") = {}
                  /\ PostsOf(i) = {}
                  /\ c.go = "none" /\ c.payload = {}

(* a call below the minimum level, with both outputs selected and a URL set,
   has returned, and so has a call at exactly the minimum level, processed *)
C1_Witness ==
    \E i, j \in 1..Len(calls) :
        /\ calls[i].pc = "done" /\ calls[i].wrapped
        /\ calls[i].level < handlers[calls[i].h].Options.MinimumLevel
        /\ calls[i].logText /\ calls[i].logJson /\ URLOf(i) = GoodURL
        /\ calls[j].pc = "done" /\ calls[j].handled
        /\ calls[j].level = handlers[calls[j].h].Options.MinimumLevel

(* the outputs the routing flags of a call select, given whether a POST is due
   for a call that selects JSON *)
OutputsFollowFlags(i, postDue) ==
    LET c == calls[i]
        blocks == IF c.logText THEN 1 ELSE 0
        sent == IF c.logJson /\ postDue THEN 1 ELSE 0
    IN /\ Cardinality(ChunksOf(i, "begin")) <= blocks
       /\ Cardinality(ChunksOf(i, "end")) <= Cardinality(ChunksOf(i, "begin"))
       /\ Cardinality(PostsOf(i)) <= sent
       /\ Returned(i) =>
            /\ Cardinality(ChunksOf(i, "end")) = blocks
            /\ Cardinality(PostsOf(i)) = sent

(* C2 as stated: for every enabled event of a method that takes routing flags
   the outputs are exactly those the flags select: one text block exactly
   when the text flag is on, one POST exactly when the JSON flag is on and
   JsonLogURL is non-empty *)
C2_AsStated ==
    \A i \in 1..Len(calls) :
        calls[i].wrapped /\ calls[i].handled => OutputsFollowFlags(i, URLOf(i) # "")

(* C2 amended: the POST is issued exactly when the JSON flag is on and
   JsonLogURL is non-empty and a request can be built from it *)
C2_OutputsFollowFlags ==
    \A i \in 1..Len(calls) :
        calls[i].wrapped /\ calls[i].handled =>
            OutputsFollowFlags(i, URLOf(i) # "" /\ ~NewRequestFails(URLOf(i)))

(* a JSON-only call and a text-only call have returned, a well-formed URL
   being set: the first has its POST and no text, the second its block and no
   POST *)
C2_Witness ==
    \E i, j \in 1..Len(calls) :
        /\ calls[i].pc = "done" /\ calls[i].wrapped /\ calls[i].handled
        /\ ~calls[i].logText /\ calls[i].logJson /\ URLOf(i) = GoodURL
        /\ Cardinality(PostsOf(i)) = 1 /\ ChunksOf(i, "begin") = {}
        /\ calls[j].pc = "done" /\ calls[j].wrapped /\ calls[j].handled
        /\ calls[j].logText /\ ~calls[j].logJson
        /\ Cardinality(ChunksOf(j, "end")) = 1 /\ PostsOf(j) = {}

(* two calls of methods of CustomLogger that ran on one handler at the same time *)
Overlapping(i, j) ==
    /\ i \in calls[j].during
    /\ calls[i].h = calls[j].h
    /\ calls[i].wrapped /\ calls[j].wrapped

(* C3: when several callers use the methods of CustomLogger at the same time
   on loggers sharing one handler, the logText and logJson values Handle
   reads for an event are those passed to the call of that event, never those
   of another call *)
C3_HandleReadsOwnFlags ==
    \A i \in 1..Len(calls) :
        calls[i].wrapped =>
            /\ calls[i].readText \in {"unread", BoolString(calls[i].logText)}
            /\ calls[i].readJson \in {"unread", BoolString(calls[i].logJson)}

(* two overlapping calls with opposite flags have both been handled to the end *)
C3_Witness ==
    \E i, j \in 1..Len(calls) :
        /\ Overlapping(i, j)
        /\ calls[i].logText # calls[j].logText /\ calls[i].logJson # calls[j].logJson
        /\ calls[i].pc = "done" /\ calls[j].pc = "done"
        /\ calls[i].readText # "unread" /\ calls[i].readJson # "unread"
        /\ calls[j].readText # "unread" /\ calls[j].readJson # "unread"

(* C4: the enabled text-emitting calls of methods of CustomLogger made at the
   same time through loggers sharing one handler each leave exactly one text
   block in the sink, and no part of the block of one lies between the first
   and the last part of the block of another *)
C4_TextBlocksContiguous ==
    /\ \A i \in 1..Len(calls) :
         calls[i].wrapped /\ calls[i].handled /\ Returned(i) =>
            /\ Cardinality(ChunksOf(i, "begin")) = IF calls[i].logText THEN 1 ELSE 0
            /\ Cardinality(ChunksOf(i, "end")) = IF calls[i].logText THEN 1 ELSE 0
    /\ \A i, j \in 1..Len(calls) :
         i # j /\ calls[i].h = calls[j].h /\ calls[i].wrapped /\ calls[j].wrapped =>
            \A b \in ChunksOf(i, "begin"), k \in 1..Len(sink) :
                sink[k].call = j /\ b < k =>
                    \E e \in ChunksOf(i, "end") : b < e /\ e < k

(* two overlapping text-emitting calls have returned, their two blocks are in
   the sink *)
C4_Witness ==
    \E i, j \in 1..Len(calls) :
        /\ Overlapping(i, j)
        /\ calls[i].logText /\ calls[j].logText
        /\ calls[i].pc = "done" /\ calls[j].pc = "done"
        /\ Cardinality(ChunksOf(i, "end")) = 1 /\ Cardinality(ChunksOf(j, "end")) = 1
        /\ Len(sink) = 4

(* C5: every call of a logging method returns within the dispatch timeout
   (1 second) of being invoked, however long the remote endpoint takes, also
   when several callers log through the same handler *)
C5_ReturnsWithinTimeout ==
    \A i \in 1..Len(calls) : calls[i].elapsed <= Timeout

(* the configuration a handler is derived with *)
Config(m) == <<m.AdditionnalAttrs, m.GroupName, m.CtxAttrsKeys>>
HandlerOf(l) == handlers[loggers[l].handler]

(* C6: every derivation (With, WithGroup, WithCtxAttrsKeys) leaves the bound
   attributes, group name and context keys of every existing handler, the
   parent's among them, as they were, and returns a logger bound to a handler
   other than the parent's *)
C6_DerivationKeepsParent ==
    [][Len(loggers') > Len(loggers) =>
        LET new == loggers'[Len(loggers')]
        IN /\ \A h \in 1..Len(handlers) : Config(handlers'[h]) = Config(handlers[h])
           /\ new.handler # loggers[new.parent].handler]_vars

(* the attributes bound by the derivations that made logger l: those of the
   last With on the way from the base logger, none when there is no With *)
RECURSIVE BoundOf(_)
BoundOf(l) ==
    IF loggers[l].via = "With" THEN loggers[l].attrs
    ELSE IF loggers[l].parent = 0 THEN << >>
    ELSE BoundOf(loggers[l].parent)

(* C7: a logger derived with With(attrs) has exactly attrs as bound
   attributes, not the parent's followed by attrs, and the parent's group
   name; an event logged through any logger shows, before the attributes of
   its call, the attributes bound on the way to that logger and no others,
   so siblings never show each other's and the base shows none *)
C7_WithReplacesBoundAttrs ==
    /\ \A l \in 1..Len(loggers) :
         loggers[l].via = "With" =>
            /\ HandlerOf(l).AdditionnalAttrs = loggers[l].attrs
            /\ HandlerOf(l).GroupName = HandlerOf(loggers[l].parent).GroupName
    /\ \A i \in 1..Len(calls) :
         LET c == calls[i]
             shown == BoundOf(c.logger) \o c.attrs
         IN c.handled /\ c.ctx = {} =>
                 /\ c.jsonAttrs = shown
                 /\ Len(c.textAttrs) = Len(shown)

(* With("x","1") and With("y","2") were both applied to the base logger and
   an event logged through the first with attribute b shows x, then b, and
   nothing else *)
C7_Witness ==
    \E l1, l2 \in 1..Len(loggers), i \in 1..Len(calls) :
        /\ loggers[l1].via = "With" /\ loggers[l1].parent = 1
        /\ loggers[l1].attrs = <<AttrX>>
        /\ loggers[l2].via = "With" /\ loggers[l2].parent = 1
        /\ loggers[l2].attrs = <<AttrY>>
        /\ calls[i].logger = l1 /\ calls[i].pc = "done" /\ calls[i].handled
        /\ calls[i].attrs = <<AttrB>>
        /\ calls[i].jsonAttrs = <<AttrX, AttrB>>

(* the declared context keys that resolve in a context, in declared order *)
ResolvedKeys(keys, ctx) ==
    LET Resolves(k) == \E p \in ctx : p[1][2] = k /\ p[1][1] \in {"CtxKeyString", "string"}
    IN SelectSeq(keys, Resolves)

(* C8: the merged attributes of an event are the bound attributes in stored
   order, then the attributes of the call in call order, then one attribute
   per context key, in declared order, that resolves in the context of the
   event; the text output has one line per attribute in that order, the key
   prefixed by "<group>." when the group name is non-empty *)
C8_MergedAttributeOrder ==
    \A i \in 1..Len(calls) :
        LET c == calls[i]
            m == handlers[c.h]
            bound == BoundOf(c.logger)
            keys == ResolvedKeys(m.CtxAttrsKeys, c.ctx)
            n1 == Len(bound)
            n2 == Len(c.attrs)
            prefix == IF m.GroupName = "" THEN "" ELSE m.GroupName \o "."
        IN c.handled =>
            /\ Len(c.jsonAttrs) = n1 + n2 + Len(keys)
            /\ \A k \in 1..n1 : c.jsonAttrs[k] = bound[k]
            /\ \A k \in 1..n2 : c.jsonAttrs[n1 + k] = c.attrs[k]
            /\ \A k \in 1..Len(keys) : c.jsonAttrs[n1 + n2 + k].Key = keys[k]
            /\ Len(c.textAttrs) = Len(c.jsonAttrs)
            /\ \A k \in 1..Len(c.jsonAttrs) :
                 c.textAttrs[k] = "\t- " \o prefix \o c.jsonAttrs[k].Key \o " : "
                                    \o ValueString(c.jsonAttrs[k].Value)

(* bound attribute a, group vals, context key u resolving to v, attribute b at
   the call: the lines are vals.a, vals.b, vals.u in this order *)
C8_Witness ==
    \E i \in 1..Len(calls) :
        /\ calls[i].pc = "done" /\ calls[i].handled
        /\ handlers[calls[i].h].AdditionnalAttrs = <<AttrA>>
        /\ handlers[calls[i].h].GroupName = "vals"
        /\ handlers[calls[i].h].CtxAttrsKeys = <<"u">>
        /\ calls[i].attrs = <<AttrB>> /\ calls[i].ctx = CtxTyped
        /\ calls[i].textAttrs = <<"\t- vals.a : 1", "\t- vals.b : 2", "\t- vals.u : v">>

(* C9: with a non-empty group name the JSON payload holds every merged
   attribute, stringified, in one object under the key equal to the group
   name and no attribute key at the top level, while the text output has one
   line "<group>.<key> : <value>" per attribute; with an empty group name
   the payload holds every attribute as a top-level key *)
C9_GroupNestsInJson ==
    \A i \in 1..Len(calls) :
        LET c == calls[i]
            g == handlers[c.h].GroupName
            nested == IF MapHas(c.payload, g) /\ MapGet(c.payload, g).kind = "object"
                      THEN MapGet(c.payload, g).m ELSE {}
        IN c.payload # {} =>
            \A k \in 1..Len(c.jsonAttrs) :
                LET key == c.jsonAttrs[k].Key
                    value == ValueString(c.jsonAttrs[k].Value)
                IN IF g # ""
                   THEN /\ <<key, value>> \in nested
                        /\ ~MapHas(c.payload, key)
                        /\ c.readText = "true" =>
                              c.textAttrs[k] = "\t- " \o g \o "." \o key \o " : " \o value
                   ELSE <<key, JString(value)>> \in c.payload

(* the frame of the application code that called the logging method *)
CallSite(i) == calls[i].stack[2]

(* C10: when AddSource is true the source reported for an event is the
   position of the application code that called the logging method, whichever
   method of whichever logger was called, never a position inside the logger
   package or log/slog; when AddSource is false no source is reported, in
   text or JSON *)
C10_SourceIsCallSite ==
    \A i \in 1..Len(calls) :
        LET c == calls[i]
        IN c.handled =>
            IF handlers[c.h].Options.AddSource
            THEN /\ c.source = "@" \o Base(CallSite(i).file) \o ":"
                                   \o ToString(CallSite(i).line)
                 /\ CallSite(i).pkg = "app"
            ELSE c.source = "" /\ ~MapHas(c.payload, "source")

(* C11: when JsonLogURL is empty no call builds a payload, starts a dispatch
   goroutine, issues a request or waits in the select, whatever its flags *)
C11_EmptyURLNoDispatch ==
    \A i \in 1..Len(calls) :
        URLOf(i) = "" =>
            /\ calls[i].payload = {}
            /\ calls[i].go = "none"
            /\ PostsOf(i) = {}
            /\ calls[i].pc # "select"
            /\ calls[i].waited = 0 /\ calls[i].elapsed = 0 /\ ~calls[i].timedOut

(* a call that selects JSON has been handled to the end without a URL *)
C11_Witness ==
    \E i \in 1..Len(calls) :
        /\ URLOf(i) = "" /\ calls[i].pc = "done" /\ calls[i].handled
        /\ calls[i].wrapped /\ calls[i].logJson /\ ~calls[i].logText

(* C12: for any chain of derivations (With, WithGroup, WithCtxAttrsKeys) the
   handler of the derived logger has the text sink, MinimumLevel,
   ColorizeLogs, AddSource and JsonLogURL of the handler it was derived from *)
C12_DerivationKeepsOptions ==
    \A l \in 1..Len(loggers) :
        loggers[l].parent # 0 =>
            LET d == HandlerOf(l)
                p == HandlerOf(loggers[l].parent)
            IN /\ d.TextWriter = p.TextWriter
               /\ d.Options.MinimumLevel = p.Options.MinimumLevel
               /\ d.Options.ColorizeLogs = p.Options.ColorizeLogs
               /\ d.Options.AddSource = p.Options.AddSource
               /\ d.Options.JsonLogURL = p.Options.JsonLogURL

(* With, WithGroup and WithCtxAttrsKeys were applied in a chain to a logger
   whose options are not the default ones *)
C12_Witness ==
    \E l1, l2, l3 \in 1..Len(loggers) :
        /\ HandlerOf(1).Options # DefaultOptions
        /\ loggers[l1].parent = 1 /\ loggers[l2].parent = l1 /\ loggers[l3].parent = l2
        /\ {loggers[l1].via, loggers[l2].via, loggers[l3].via}
                = {"With", "WithGroup", "WithCtxAttrsKeys"}

(* the group set by the derivations that made logger l: that of the last
   WithGroup on the way from the base logger, none when there is no WithGroup *)
RECURSIVE GroupOf(_)
GroupOf(l) ==
    IF loggers[l].via = "WithGroup" THEN loggers[l].group
    ELSE IF loggers[l].parent = 0 THEN ""
    ELSE GroupOf(loggers[l].parent)

(* C13: the handler of a logger derived with WithGroup(name) has group name
   exactly name and the bound attributes of the parent; on an already grouped
   logger the new name replaces the previous one, so the text lines of an
   event are prefixed, and its JSON attributes nested, with the last name
   only, never "a.b" *)
C13_WithGroupReplacesGroup ==
    /\ \A l \in 1..Len(loggers) :
         loggers[l].via = "WithGroup" =>
            /\ HandlerOf(l).GroupName = loggers[l].group
            /\ HandlerOf(l).AdditionnalAttrs = HandlerOf(loggers[l].parent).AdditionnalAttrs
            /\ HandlerOf(l).AdditionnalAttrs = BoundOf(l)
    /\ \A i \in 1..Len(calls) :
         LET c == calls[i]
             g == GroupOf(c.logger)
         IN c.handled /\ g # "" =>
              /\ \A k \in 1..Len(c.textAttrs) :
                    c.textAttrs[k] = "\t- " \o g \o "." \o c.jsonAttrs[k].Key \o " : "
                                        \o ValueString(c.jsonAttrs[k].Value)
              /\ c.payload # {} /\ c.jsonAttrs # << >> =>
                    /\ MapHas(c.payload, g)
                    /\ MapKeys(c.payload) \subseteq {"time", "level", "msg", "source", g}

(* WithGroup("vals").WithGroup("req"): an event with attribute b logged
   through the result shows req.b and is nested under req only *)
C13_Witness ==
    \E l1, l2 \in 1..Len(loggers), i \in 1..Len(calls) :
        /\ loggers[l1].via = "WithGroup" /\ loggers[l1].group = "vals"
        /\ loggers[l2].via = "WithGroup" /\ loggers[l2].group = "req"
        /\ loggers[l2].parent = l1
        /\ calls[i].logger = l2 /\ calls[i].pc = "done"
        /\ calls[i].textAttrs = <<"\t- req.b : 2">>
        /\ MapHas(calls[i].payload, "req") /\ ~MapHas(calls[i].payload, "vals")

(* the context keys declared by the derivations that made logger l: those of
   the parent followed by the keys given to WithCtxAttrsKeys; a base logger
   and a logger made by With or WithGroup start without context keys *)
RECURSIVE KeysOf(_)
KeysOf(l) ==
    IF loggers[l].via = "WithCtxAttrsKeys"
    THEN KeysOf(loggers[l].parent) \o loggers[l].keys
    ELSE << >>

(* the keys of the attributes an event took from its context *)
ExtractedKeys(i) ==
    LET c == calls[i]
        n == Len(handlers[c.h].AdditionnalAttrs) + Len(c.attrs)
    IN [k \in 1..(Len(c.jsonAttrs) - n) |-> c.jsonAttrs[n + k].Key]

(* C14: the handler of the logger returned by WithCtxAttrsKeys(keys) has as
   context-key list the list of the parent followed by keys, in the given
   order, and an event logged through the returned logger extracts exactly
   those keys *)
C14_ContextKeysExtended ==
    /\ \A l \in 1..Len(loggers) :
         loggers[l].via = "WithCtxAttrsKeys" => HandlerOf(l).CtxAttrsKeys = KeysOf(l)
    /\ \A i \in 1..Len(calls) :
         calls[i].handled /\ loggers[calls[i].logger].via = "WithCtxAttrsKeys" =>
            ExtractedKeys(i) = ResolvedKeys(KeysOf(calls[i].logger), calls[i].ctx)

(* C15: when building the payload or the HTTP request of an event fails (a
   malformed JsonLogURL), the failure is reported exactly once on the local
   output, the text block of the event is still written, no dispatch
   goroutine is started, no timeout is waited for, and the call returns
   normally *)
C15_RequestFailureReportedOnce ==
    \A i \in 1..Len(calls) :
        calls[i].err # "" /\ calls[i].pc = "done" =>
            /\ calls[i].printed = 1
            /\ calls[i].readText = "true" => Cardinality(ChunksOf(i, "end")) = 1
            /\ calls[i].go = "none" /\ PostsOf(i) = {}
            /\ calls[i].waited = 0 /\ ~calls[i].timedOut

(* C16: every call of a logging method eventually returns and has then
   released the handler mutex, for every outcome of the POST (a response, a
   transport error, no answer) and with several callers on one handler; a
   transport error is printed, never returned to the caller, and the POST of
   an event is attempted at most once *)
C16_EveryCallReturns ==
    /\ [](\A i \in 1..Len(calls) :
            /\ Cardinality(PostsOf(i)) <= 1
            /\ calls[i].printed > 0 => calls[i].err = ""
            /\ calls[i].pc = "done" => mutex[calls[i].h] # i)
    /\ \A n \in 1..LiveOps :
            (Len(calls) >= n) ~> (Len(calls) >= n /\ calls[n].pc = "done")

(* two callers were on one handler at once and both have returned, one after
   a transport error of its POST, the other after its timeout *)
C16_Witness ==
    \E i, j \in 1..Len(calls) :
        /\ Overlapping(i, j)
        /\ calls[i].pc = "done" /\ calls[j].pc = "done"
        /\ calls[i].printed = 1 /\ calls[j].timedOut
        /\ mutex[calls[i].h] = 0

(* the flags an event is to be routed by: those of its call for the methods
   of CustomLogger; both outputs, as on a new handler, for the methods of the
   embedded slog.Logger, which offer no routing choice *)
OwnText(i) == IF calls[i].wrapped THEN calls[i].logText ELSE TRUE
OwnJson(i) == IF calls[i].wrapped THEN calls[i].logJson ELSE TRUE

(* C17: every event that reaches Handle, through any logging method a
   CustomLogger offers, the methods of the embedded slog.Logger included, is
   routed by flags chosen for its own call, never by flags an earlier call
   left on the handler *)
C17_RoutedByOwnFlags ==
    \A i \in 1..Len(calls) :
        /\ calls[i].readText \in {"unread", BoolString(OwnText(i))}
        /\ calls[i].readJson \in {"unread", BoolString(OwnJson(i))}


(* the calls made through a logger that NewCustomLogger built from nil options *)
NilOptionsCalls == {i \in 1..Len(calls) : loggers[calls[i].logger].nilOptions}

(* the handler NewCustomLogger(w, nil) builds has no bound attributes and no
   group, and no context key as long as no WithCtxAttrsKeys shares it; an event
   through it is processed exactly when its level is Info or above, a Debug
   event writes nothing, and no event builds a payload, starts a dispatch or
   issues a POST *)
NilOptionsBase ==
    /\ \A l \in 1..Len(loggers) : loggers[l].nilOptions =>
            LET m == handlers[loggers[l].handler]
            IN /\ m.AdditionnalAttrs = << >>
               /\ m.GroupName = ""
               /\ (\A k \in 1..Len(loggers) :
                        k # l => loggers[k].handler # loggers[l].handler)
                    => m.CtxAttrsKeys = << >>
    /\ \A i \in NilOptionsCalls :
            /\ ~(calls[i].pc \in {"lock", "handle"}) =>
                    (calls[i].handled <=> calls[i].level >= LevelInfo)
            /\ calls[i].level = LevelDebug =>
                    ChunksOf(i, "begin") \cup ChunksOf(i, "end") = {}
            /\ calls[i].payload = {} /\ calls[i].go = "none" /\ PostsOf(i) = {}
            /\ calls[i].pc # "select"

(* the text block of call i is in the sink, in colour and with a source position *)
ColorizedBlockWritten(i) ==
    /\ calls[i].source # ""
    /\ \E b \in ChunksOf(i, "begin") :
            /\ sink[b].text[2] = LevelColor(calls[i].level) \o calls[i].msg \o COLOR_RESET
            /\ sink[b].text[3] = COLOR_DARKGRAY \o "\n " \o FormatTime(calls[i].time)
                                    \o " " \o calls[i].source \o COLOR_RESET
    /\ \E e \in ChunksOf(i, "end") :
            sink[e].text[Len(sink[e].text)] =
                LevelColor(calls[i].level) \o "\n====================================" \o COLOR_RESET

(* C18 as stated: a logger created with NewCustomLogger(w, nil) writes
   colorized text with source position for every event of level Info or above,
   writes nothing for Debug events, has no bound attributes, no group and no
   context keys, and never sends JSON *)
C18_AsStated ==
    /\ NilOptionsBase
    /\ \A i \in NilOptionsCalls :
            calls[i].level >= LevelInfo /\ Returned(i) => ColorizedBlockWritten(i)

(* C18 amended: the colorized text block with its source position is written
   for every event of level Info or above that Handle finds the text flag on
   for; the rest as stated *)
C18_NilOptionsDefaults ==
    /\ NilOptionsBase
    /\ \A i \in NilOptionsCalls :
            /\ calls[i].level >= LevelInfo /\ Returned(i)
                    /\ calls[i].readText = "true" => ColorizedBlockWritten(i)
            /\ calls[i].readText # "true" =>
                    ChunksOf(i, "begin") \cup ChunksOf(i, "end") = {}

(* through a logger built from nil options an Info event with the text flag on
   has returned with its block written and a Debug event has returned unprocessed *)
C18_Witness ==
    \E i, j \in NilOptionsCalls :
        /\ calls[i].pc = "done" /\ calls[i].level = LevelInfo
        /\ calls[i].readText = "true" /\ ColorizedBlockWritten(i)
        /\ calls[j].pc = "done" /\ calls[j].level = LevelDebug /\ ~calls[j].handled


(* the text block of call i is completely in the sink *)
TextComplete(i) == ChunksOf(i, "begin") # {} /\ ChunksOf(i, "end") # {}

(* C19: within one event whose flags select both outputs (and more generally
   whenever the text output is selected) the text block is completely written
   to the sink before the dispatch of the event is started and so before its
   POST, and it is in the sink when the logging call returns; the POST may
   still be in flight when the call has returned *)
C19_TextBeforePost ==
    \A i \in 1..Len(calls) : calls[i].readText = "true" =>
        /\ calls[i].pc = "select" \/ calls[i].go # "none" \/ PostsOf(i) # {}
                \/ calls[i].payload # {}
              => TextComplete(i)
        /\ Returned(i) => TextComplete(i)

(* a call with both outputs selected has returned after the timeout, its text
   block in the sink, while its POST is still in flight *)
C19_Witness ==
    \E i \in 1..Len(calls) :
        /\ calls[i].readText = "true" /\ calls[i].readJson = "true"
        /\ calls[i].pc = "done" /\ calls[i].timedOut
        /\ calls[i].go = "inflight" /\ PostsOf(i) # {}
        /\ TextComplete(i)


(* C20: a dispatch goroutine whose HTTP call has returned, with a response or
   with an error, terminates, also when the 1-second timeout has fired before
   and the caller has moved on: no goroutine stays blocked forever after its
   POST has finished *)
C20_AbandonedGoroutineTerminates ==
    \A n \in 1..LiveOps :
        (Len(calls) >= n /\ calls[n].go = "send")
            ~> (Len(calls) >= n /\ calls[n].go = "done")


(* C21: a logging call whose level is below MinimumLevel does no work at all:
   it never holds the lock of its handler and never waits for it, it leaves no
   routing flag of its own on the handler, it captures no source position and
   it renders and dispatches nothing *)
C21_DisabledCallsSkipLock ==
    \A i \in 1..Len(calls) :
        ~Enabled(handlers[calls[i].h], calls[i].level) =>
            /\ mutex[calls[i].h] # i
            /\ ~(calls[i].pc = "lock" /\ ~MutexFree(calls[i].h))
            /\ calls[i].source = "" /\ calls[i].textAttrs = << >>
            /\ ChunksOf(i, "begin") \cup ChunksOf(i, "end") = {}
            /\ calls[i].payload = {} /\ calls[i].go = "none" /\ PostsOf(i) = {}


(* the value Handle is to find for a declared key: the one under the typed key
   when there is one, else the one under the plain string, else nil *)
LookedUp(ctx, key) ==
    IF \E p \in ctx : p[1] = <<"CtxKeyString", key>>
    THEN (CHOOSE p \in ctx : p[1] = <<"CtxKeyString", key>>)[2]
    ELSE IF \E p \in ctx : p[1] = <<"string", key>>
    THEN (CHOOSE p \in ctx : p[1] = <<"string", key>>)[2]
    ELSE Nil

(* the string form of a value: the string itself, the decimal digits of an integer *)
Stringified(v) == IF v.kind = "int" THEN ToString(v.n) ELSE v.s

(* the attributes an event took from its context, and their text lines *)
ExtractedAttrs(i) ==
    LET c == calls[i]
        n == Len(handlers[c.h].AdditionnalAttrs) + Len(c.attrs)
    IN [k \in 1..(Len(c.jsonAttrs) - n) |-> c.jsonAttrs[n + k]]
ExtractedLines(i) ==
    LET c == calls[i]
        n == Len(handlers[c.h].AdditionnalAttrs) + Len(c.attrs)
    IN [k \in 1..(Len(c.textAttrs) - n) |-> c.textAttrs[n + k]]

(* C22: for each declared context key Handle takes the value under the typed
   key, or when that is absent the value under the plain string; a key absent
   under both gives no attribute and no placeholder, any other key gives
   exactly one attribute named by the key whose value is the string form of
   the value found, appended to the text and to the JSON attributes *)
C22_ContextLookup ==
    \A i \in 1..Len(calls) : calls[i].handled =>
        LET keys == handlers[calls[i].h].CtxAttrsKeys
            Found(k) == LookedUp(calls[i].ctx, k) # Nil
            found == SelectSeq(keys, Found)
        IN /\ ExtractedAttrs(i) =
                 [k \in 1..Len(found) |->
                     Attr(found[k], StringValue(Stringified(LookedUp(calls[i].ctx, found[k]))))]
           /\ ExtractedLines(i) =
                 [k \in 1..Len(found) |->
                     "\t- " \o GroupPrefix(handlers[calls[i].h]) \o found[k] \o " : "
                        \o Stringified(LookedUp(calls[i].ctx, found[k]))]


(* call i is inside its write to the text sink *)
InWrite(i) == calls[i].pc = "write"

(* C23: the text writes to one sink are mutually exclusive across all the
   handlers that share it: of the calls made at the same time through a
   logger and through loggers derived from it with With or WithGroup at most
   one is inside its write at any time, and no part of the block of one lies
   inside the block of another *)
C23_SharedSinkExclusive ==
    \A i, j \in 1..Len(calls) :
        i # j /\ handlers[calls[i].h].TextWriter = handlers[calls[j].h].TextWriter
              /\ calls[i].wrapped /\ calls[j].wrapped =>
            /\ ~(InWrite(i) /\ InWrite(j))
            /\ \A b \in ChunksOf(i, "begin"), k \in 1..Len(sink) :
                    sink[k].call = j /\ b < k =>
                        \E e \in ChunksOf(i, "end") : b < e /\ e < k


(* the number of attribute entries of a payload: the entries of the object
   under the group name, or the top-level entries besides the fields of the
   event *)
PayloadAttrCount(i) ==
    LET c == calls[i]
        g == handlers[c.h].GroupName
        fields == {"time", "level", "msg"} \cup (IF c.source # "" THEN {"source"} ELSE {})
    IN IF g # ""
       THEN IF MapHas(c.payload, g) /\ MapGet(c.payload, g).kind = "object"
            THEN Cardinality(MapGet(c.payload, g).m) ELSE 0
       ELSE Cardinality(c.payload) - Cardinality(fields)

(* C24: attributes with equal keys coming from different sources are all
   preserved: the text output and the JSON payload of an event hold one entry
   per attribute of the merged sequence, as many as there are bound
   attributes, attributes of the call and resolved context keys *)
C24_DuplicateKeysPreserved ==
    \A i \in 1..Len(calls) :
        LET c == calls[i]
            n == Len(handlers[c.h].AdditionnalAttrs) + Len(c.attrs)
                    + Len(ResolvedKeys(handlers[c.h].CtxAttrsKeys, c.ctx))
        IN c.handled =>
            /\ Len(c.jsonAttrs) = n
            /\ c.readText = "true" => Len(c.textAttrs) = n
            /\ c.payload # {} => PayloadAttrCount(i) = n


FieldNames == {"time", "level", "msg", "source"}

(* the fields of event i as Handle writes them before the attributes *)
OwnFields(i) ==
    {<<"time", JString(FormatTime(calls[i].time))>>,
     <<"level", JString(LevelString(calls[i].level))>>,
     <<"msg", JString(calls[i].msg)>>}
        \cup (IF calls[i].source # "" THEN {<<"source", JString(calls[i].source)>>} ELSE {})

(* field f of the payload of event i is the event's own: its own value, or no
   field at all when the event has none *)
FieldIntact(i, f) ==
    IF MapHas(OwnFields(i), f)
    THEN MapHas(calls[i].payload, f)
            /\ MapGet(calls[i].payload, f) = MapGet(OwnFields(i), f)
    ELSE ~MapHas(calls[i].payload, f)

(* the value of the last attribute keyed f among the merged attributes *)
LastKeyed(attrs, f) ==
    LET ks == {k \in 1..Len(attrs) : attrs[k].Key = f}
        last == CHOOSE k \in ks : \A j \in ks : j <= k
    IN ValueString(attrs[last].Value)

(* what the payload of event i holds for field f in ungrouped mode *)
UngroupedField(i, f) ==
    IF \E k \in 1..Len(calls[i].jsonAttrs) : calls[i].jsonAttrs[k].Key = f
    THEN <<f, JString(LastKeyed(calls[i].jsonAttrs, f))>> \in calls[i].payload
            /\ ~FieldIntact(i, f)
    ELSE FieldIntact(i, f)

(* C25 as stated: in the ungrouped payload an attribute keyed time, level, msg
   or source overwrites the field of the event; in grouped mode a group named
   like one of these fields replaces the field by the object of the
   attributes; the fields of the event are intact only when no attribute key
   and no group name collides with them *)
C25_AsStated ==
    \A i \in 1..Len(calls) : calls[i].payload # {} =>
        LET g == handlers[calls[i].h].GroupName
        IN \A f \in FieldNames :
            IF g = "" THEN UngroupedField(i, f)
            ELSE IF g = f
                 THEN MapHas(calls[i].payload, f)
                        /\ MapGet(calls[i].payload, f) = JObject(GroupMap({}, calls[i].jsonAttrs))
                 ELSE FieldIntact(i, f)

(* C25 amended: a group named like a field replaces the field when the event
   has at least one merged attribute; with no attribute at all the group key
   is not written and the field is the event's own *)
C25_FieldsReplacedOnCollision ==
    \A i \in 1..Len(calls) : calls[i].payload # {} =>
        LET g == handlers[calls[i].h].GroupName
        IN \A f \in FieldNames :
            IF g = "" THEN UngroupedField(i, f)
            ELSE IF g = f /\ calls[i].jsonAttrs # << >>
                 THEN MapHas(calls[i].payload, f)
                        /\ MapGet(calls[i].payload, f) = JObject(GroupMap({}, calls[i].jsonAttrs))
                        /\ ~FieldIntact(i, f)
                 ELSE FieldIntact(i, f)

(* an ungrouped event was sent whose bound attribute msg, call attribute time
   and context key level have replaced the three fields of the event *)
C25_Witness ==
    \E i \in 1..Len(calls) :
        /\ calls[i].pc = "done" /\ PostsOf(i) # {}
        /\ handlers[calls[i].h].GroupName = ""
        /\ {<<"msg", JString("m2")>>, <<"time", JString("t2")>>,
            <<"level", JString("l2")>>} \subseteq posts[CHOOSE k \in PostsOf(i) : TRUE].body


(* logger l has no logger made from it by WithCtxAttrsKeys *)
NoKeysAdded(l) ==
    \A k \in 1..Len(loggers) :
        ~(loggers[k].via = "WithCtxAttrsKeys" /\ loggers[k].parent = l)

(* C26: With and WithGroup return a handler whose context-key list is empty,
   whose routing flags are both on and whose mutex is new and unlocked,
   whatever the state of the parent; the context keys bound with
   WithCtxAttrsKeys are not inherited, so an event through
   WithCtxAttrsKeys(k).With(a) extracts no context key and an event through
   With(a).WithCtxAttrsKeys(k) extracts k *)
C26_DerivedHandlerStartsFresh ==
    /\ [][Len(handlers') > Len(handlers) =>
            LET n == Len(handlers')
            IN /\ n = Len(handlers) + 1 /\ Len(mutex') = n
               /\ handlers'[n].CtxAttrsKeys = << >>
               /\ handlers'[n].logText /\ handlers'[n].logJson
               /\ mutex'[n] = 0
               /\ loggers'[Len(loggers')].handler = n
               /\ \A h \in 1..Len(handlers) :
                    handlers'[h] = handlers[h] /\ mutex'[h] = mutex[h]]_vars
    /\ [](\A i \in 1..Len(calls) :
            LET l == calls[i].logger
            IN calls[i].handled /\ NoKeysAdded(l) =>
                ExtractedKeys(i) =
                    IF loggers[l].via \in {"With", "WithGroup"} THEN << >>
                    ELSE IF loggers[l].via = "WithCtxAttrsKeys"
                            /\ loggers[loggers[l].parent].via \in {"With", "WithGroup"}
                            /\ \A k \in 1..Len(loggers) :
                                    k # l => ~(loggers[k].via = "WithCtxAttrsKeys"
                                                /\ loggers[k].parent = loggers[l].parent)
                    THEN ResolvedKeys(loggers[l].keys, calls[i].ctx)
                    ELSE ExtractedKeys(i))

(* an event with the key in its context went through WithCtxAttrsKeys(k).With(a)
   and extracted nothing, the handler of the parent holding k *)
C26_Witness ==
    \E i \in 1..Len(calls) :
        LET l == calls[i].logger
        IN /\ loggers[l].via = "With" /\ loggers[l].parent # 0
           /\ loggers[loggers[l].parent].via = "WithCtxAttrsKeys"
           /\ handlers[loggers[loggers[l].parent].handler].CtxAttrsKeys = <<"u">>
           /\ calls[i].pc = "done" /\ calls[i].handled /\ calls[i].ctx = CtxTyped
           /\ calls[i].jsonAttrs = <<AttrX>>


(* call i is between the setting of its flags and the return of its method *)
InHandle(i) == calls[i].pc \in {"handle", "write", "json", "select", "ret"}

(* C27: the calls made through the methods CustomLogger defines on one handler
   are totally serialized: a call holds the lock of the handler from before
   its flags are set until Handle has returned, the wait for the POST or for
   the timeout included, the handler then carrying its flags; the text write,
   the start of the POST and the wait of one event overlap no step of another
   event on the handler, and the text blocks and the POSTs are in the order in
   which the calls took the lock *)
C27_CallsSerialized ==
    /\ \A i \in 1..Len(calls) : calls[i].wrapped =>
            /\ InHandle(i) =>
                    /\ mutex[calls[i].h] = i
                    /\ handlers[calls[i].h].logText = calls[i].logText
                    /\ handlers[calls[i].h].logJson = calls[i].logJson
            /\ calls[i].go = "spawned" => calls[i].pc = "select"
            /\ calls[i].pc = "lock" =>
                    /\ calls[i].ticket = 0
                    /\ ChunksOf(i, "begin") \cup ChunksOf(i, "end") \cup PostsOf(i) = {}
    /\ \A i, j \in 1..Len(calls) :
            i # j /\ calls[i].h = calls[j].h /\ calls[i].wrapped /\ calls[j].wrapped =>
                /\ ~(InHandle(i) /\ InHandle(j))
                /\ 0 < calls[i].ticket /\ calls[i].ticket < calls[j].ticket =>
                    /\ \A a \in ChunksOf(i, "begin") \cup ChunksOf(i, "end"),
                          b \in ChunksOf(j, "begin") \cup ChunksOf(j, "end") : a < b
                    /\ \A a \in PostsOf(i), b \in PostsOf(j) : a < b
                    /\ calls[j].pc # "lock" => ~InHandle(i) /\ calls[i].go # "spawned"

(* of two calls made at the same time on one handler the one invoked last took
   the lock first and kept it until its timeout; both have returned, the block
   and the POST of the first holder before those of the second *)
C27_Witness ==
    \E i, j \in 1..Len(calls) :
        /\ Overlapping(i, j)
        /\ calls[j].ticket = 1 /\ calls[i].ticket = 2
        /\ calls[i].pc = "done" /\ calls[j].pc = "done"
        /\ calls[j].timedOut
        /\ Len(sink) = 4 /\ sink[1].call = j /\ sink[2].call = j
        /\ sink[3].call = i /\ sink[4].call = i
        /\ Len(posts) = 2 /\ posts[1].call = j /\ posts[2].call = i

=============================================================================
